---- MODULE Spec2Model ----
(***************************************************************************)
(* Model of the query engine of graphrag-fn-query_engine (src/main.py):    *)
(* one POST request handled by query_engine(), with its three              *)
(* collaborators (embedding service, Spanner store, text generation).      *)
(*                                                                         *)
(* Python strings are modelled as sequences of tokens (<<>> is the empty   *)
(* string, \o is concatenation); Python None and JSON values carry a tag.  *)
(***************************************************************************)
EXTENDS Integers, Sequences, FiniteSets, TLC

\* ------------------------------------------------------------------ bounds

\* Longest store content built from the full row alphabet (Rows).
MaxRows == 2

\* Longest store content built from the two plain rows (LongRows); it is
\* larger than top_n so that the top-N cut takes place.
MaxLongRows == 6

\* ------------------------------------------------------- program constants

\* main.py:217  top_n = 5
top_n == 5

\* ----------------------------------------------------------- JSON / Python

\* A tagged value: t is the Python/JSON shape, v the list of numbers held when
\* t = "list" (for "str"/"num", v is <<>> when the value is falsy).
JVal(t, v) == [t |-> t, v |-> v]

None == JVal("none", <<>>)

\* Python truthiness of a tagged value.
Truthy(x) == x.t \notin {"none", "absent"} /\ x.v # <<>>

IsList(x) == x.t = "list"

\* A property that the properties mapping does not hold.
Absent == <<"<absent>">>

\* dict.get(key, default) on a properties mapping.
Get(props, key, default) == IF props[key] = Absent THEN default ELSE props[key]

\* json.dumps of one "key": "value" member, or nothing when the key is absent.
DumpsMember(props, key) ==
    IF props[key] = Absent THEN <<>>
    ELSE <<"\"", key, "\": \"">> \o props[key] \o <<"\"">>

\* json.dumps(entity_properties): never the empty string.
Dumps(props) ==
    <<"{">> \o DumpsMember(props, "summary") \o DumpsMember(props, "name")
            \o DumpsMember(props, "description") \o <<"}">>

\* json.loads(row[2]) if row[2] else {}
EmptyProps == [summary |-> Absent, name |-> Absent, description |-> Absent]

Loads(col) == IF col.null THEN EmptyProps ELSE col.json

\* ------------------------------------------------------------ input domains

\* The request's query text.
QueryText == <<"chi e il lupo">>

\* Request bodies.  kind: how the body parses; truthy: Python truthiness of the
\* parsed value; hasQuery: whether `"query" in request_json` is true of it
\* (a key of an object, an element of an array, a substring of a string).
Body(kind, truthy, hasQuery) == [kind |-> kind, truthy |-> truthy, hasQuery |-> hasQuery]

Bodies ==
    { Body("missing", FALSE, FALSE),   \* no body
      Body("invalid", FALSE, FALSE),   \* not JSON
      Body("object", FALSE, FALSE),    \* {}
      Body("object", TRUE, FALSE),     \* {"text": "..."}
      Body("object", TRUE, TRUE),      \* {"query": "..."}
      Body("number", FALSE, FALSE),    \* 0
      Body("number", TRUE, FALSE),     \* 7
      Body("array", FALSE, FALSE),     \* []
      Body("array", TRUE, FALSE),      \* ["text"]
      Body("array", TRUE, TRUE),       \* ["query"]
      Body("string", FALSE, FALSE),    \* ""
      Body("string", TRUE, FALSE),     \* "text"
      Body("string", TRUE, TRUE) }     \* "my query"

\* What the embedding service call meets.  url: EMBEDDING_SERVICE_URL is set;
\* token: fetch_id_token returns; transport: requests.post raises a
\* RequestException; status and embedding: the response.
EmbedOutcome(url, token, transport, status, embedding) ==
    [url |-> url, token |-> token, transport |-> transport,
     status |-> status, embedding |-> embedding]

QueryVectors == { <<1, 0>>, <<1>> }

EmbedOutcomes ==
    { EmbedOutcome(FALSE, FALSE, FALSE, 0, None),
      EmbedOutcome(TRUE, FALSE, FALSE, 0, None),
      EmbedOutcome(TRUE, TRUE, TRUE, 0, None),
      EmbedOutcome(TRUE, TRUE, FALSE, 500, None),
      EmbedOutcome(TRUE, TRUE, FALSE, 404, None),
      EmbedOutcome(TRUE, TRUE, FALSE, 204, None),
      EmbedOutcome(TRUE, TRUE, FALSE, 200, JVal("absent", <<>>)),
      EmbedOutcome(TRUE, TRUE, FALSE, 200, JVal("null", <<>>)),
      EmbedOutcome(TRUE, TRUE, FALSE, 200, JVal("list", <<>>)),
      EmbedOutcome(TRUE, TRUE, FALSE, 200, JVal("str", <<1>>)),
      EmbedOutcome(TRUE, TRUE, FALSE, 200, JVal("num", <<1>>)) }
    \cup { EmbedOutcome(TRUE, TRUE, FALSE, 200, JVal("list", v)) : v \in QueryVectors }

\* Properties mappings (the parsed JSON of the Properties column).
Props(summary, name, description) ==
    [summary |-> summary, name |-> name, description |-> description]

\* One row of the store: (type, Properties as JSON or NULL, Embedding or NULL).
Row(type, props, emb) ==
    [type |-> type,
     props |-> [null |-> props = EmptyProps, json |-> props],
     emb |-> emb]

Vec(v) == JVal("list", v)

SQLNull == JVal("null", <<>>)

\* Rows that differ in type and properties; all carry the embedding <<1, 0>>.
SummaryRows ==
    { Row("Community", Props(<<"s">>, Absent, Absent), Vec(<<1, 0>>)),
      Row("Community", Props(<<>>, Absent, Absent), Vec(<<1, 0>>)),
      Row("Community", EmptyProps, Vec(<<1, 0>>)),
      Row("Class", Props(<<"s">>, Absent, Absent), Vec(<<1, 0>>)),
      Row("Class", Props(Absent, <<"n">>, Absent), Vec(<<1, 0>>)),
      Row("Instance", Props(Absent, <<"n">>, <<"d">>), Vec(<<1, 0>>)),
      Row("Instance", Props(Absent, <<>>, <<"d">>), Vec(<<1, 0>>)),
      Row("Instance", Props(Absent, Absent, <<"d">>), Vec(<<1, 0>>)),
      Row("Instance", Props(<<"s">>, Absent, Absent), Vec(<<1, 0>>)),
      Row("Instance", EmptyProps, Vec(<<1, 0>>)),
      Row("Event", Props(<<"s">>, <<"n">>, Absent), Vec(<<1, 0>>)) }

\* Rows that differ in the Embedding column.
EmbeddingRows ==
    { Row("Community", Props(<<"s">>, Absent, Absent), e) :
        e \in { SQLNull, Vec(<<>>), Vec(<<0, 1>>), Vec(<<1, 1>>), Vec(<<0, 0>>), Vec(<<1>>) } }

Rows == SummaryRows \cup EmbeddingRows

LongRows ==
    { Row("Community", Props(<<"s">>, Absent, Absent), Vec(<<1, 0>>)),
      Row("Community", Props(<<"s">>, Absent, Absent), Vec(<<0, 1>>)) }

SeqsUpTo(S, n) == UNION { [1..k -> S] : k \in 0..n }

\* The result sets the store may return.
Pools == SeqsUpTo(Rows, MaxRows) \cup SeqsUpTo(LongRows, MaxLongRows)

\* ------------------------------------------------------------ pure functions

\* get_query_embedding without the isinstance(..., list) test: any truthy
\* `embedding` of a 200 response is returned.
get_query_embedding_AnyTruthy(o) ==
    IF ~o.url THEN [raised |-> FALSE, called |-> FALSE, value |-> None]
    ELSE IF ~o.token THEN [raised |-> TRUE, called |-> FALSE, value |-> None]
    ELSE IF o.transport THEN [raised |-> FALSE, called |-> TRUE, value |-> None]
    ELSE IF o.status = 200 /\ Truthy(o.embedding)
         THEN [raised |-> FALSE, called |-> TRUE, value |-> o.embedding]
         ELSE [raised |-> FALSE, called |-> TRUE, value |-> None]

\* get_query_embedding(query): [raised, value]; value is None or the vector.
\* raised: an exception that is no requests RequestException leaves the function
\* (fetch_id_token failing); raise_for_status() and transport errors are caught.
get_query_embedding(o) ==
    IF ~o.url THEN [raised |-> FALSE, called |-> FALSE, value |-> None]
    ELSE IF ~o.token THEN [raised |-> TRUE, called |-> FALSE, value |-> None]
    ELSE IF o.transport THEN [raised |-> FALSE, called |-> TRUE, value |-> None]
    ELSE IF o.status = 200
         THEN IF Truthy(o.embedding) /\ IsList(o.embedding) /\ Len(o.embedding.v) > 0
              THEN [raised |-> FALSE, called |-> TRUE, value |-> o.embedding]
              ELSE [raised |-> FALSE, called |-> TRUE, value |-> None]
         ELSE [raised |-> FALSE, called |-> TRUE, value |-> None]

\* list(row[3]) if row[3] else None
EntityEmbedding(col) == IF Truthy(col) THEN JVal("list", col.v) ELSE None

\* The dictionary appended to all_entities_data for the i-th row.  Ids are
\* unique in the store; the model takes the row's position as its id.
Entity(i, row) ==
    [id |-> i, type |-> row.type, properties |-> Loads(row.props),
     embedding |-> EntityEmbedding(row.emb)]

\* The filter of lines 198-203 left out: every entity counts as valid.
HasValidEmbedding_Any(entity) == TRUE

\* if entity.get("embedding") and isinstance(entity["embedding"], list)
HasValidEmbedding(entity) == Truthy(entity.embedding) /\ IsList(entity.embedding)

FilterValid(entities) == SelectSeq(entities, HasValidEmbedding)

Dot(a, b) ==
    LET F[i \in 0..Len(a)] == IF i = 0 THEN 0 ELSE F[i - 1] + a[i] * b[i]
    IN F[Len(a)]

NormSq(a) == Dot(a, a)

Abs(x) == IF x < 0 THEN -x ELSE x

\* cosine_similarity(q, v) = dot / (|q| |v|), a zero norm replaced by 1.  The
\* model orders scores by the signed square dot*|dot| / |v|^2, which for one
\* query q is an increasing function of the score.
SimNum(q, v) == Dot(q, v) * Abs(Dot(q, v))

SimDen(v) == IF NormSq(v) = 0 THEN 1 ELSE NormSq(v)

\* score(q, a) <= score(q, b)
SimLE(q, a, b) == SimNum(q, a) * SimDen(b) <= SimNum(q, b) * SimDen(a)

\* cosine_similarity raises ValueError when the rows are not all of the query's
\* length (a ragged matrix, or incompatible dimensions).
CosineRaises(q, entities) ==
    \E i \in 1..Len(entities) : Len(entities[i].embedding.v) # Len(q)

\* similarities.argsort(): the index orders that put the scores in ascending
\* order.  The default sort kind is not stable, so equal scores come in an
\* order the library build chooses.
Argsort(q, entities) ==
    LET n == Len(entities) IN
    { [i \in 1..n |-> p[i]] : p \in
        { r \in Permutations(1..n) :
            \A i \in 1..(n - 1) :
                SimLE(q, entities[r[i]].embedding.v, entities[r[i + 1]].embedding.v) } }

\* order[::-1]: the cut to top_n forgotten.
TopNIndices_NoCut(order) == [i \in 1..Len(order) |-> order[Len(order) - i + 1]]

\* order[-top_n:]: the reversal forgotten.
TopNIndices_NoReverse(order) ==
    LET n == Len(order)
        m == IF n < top_n THEN n ELSE top_n
    IN [i \in 1..m |-> order[n - m + i]]

\* order[-top_n:][::-1]
TopNIndices(order) ==
    LET n == Len(order)
        m == IF n < top_n THEN n ELSE top_n
    IN [i \in 1..m |-> order[n - i + 1]]

\* The summary of lines 231-244.
ResolveSummary(entity) ==
    LET props == entity.properties IN
    IF entity.type \in {"Community", "Class"}
    THEN LET summary == Get(props, "summary", <<>>)
         IN IF summary = <<>> THEN Dumps(props) ELSE summary
    ELSE IF entity.type = "Instance"
    THEN LET summary == Get(props, "name", Get(props, "description", <<>>))
         IN IF summary = <<>> THEN Dumps(props) ELSE summary
    ELSE Dumps(props)

PARTIAL_ANSWER_PROMPT(query, summary) ==
    <<"Query: ">> \o query \o <<"Summary: ">> \o summary \o <<"Partial Answer:">>

FINAL_ANSWER_PROMPT(query, partial_answers) ==
    <<"Query: ">> \o query \o <<"Partial Answers: ">> \o partial_answers
        \o <<"Final Answer:">>

\* "\n".join(partial_answers)
Join(parts) ==
    LET F[i \in 0..Len(parts)] ==
            IF i = 0 THEN <<>>
            ELSE IF i = 1 THEN parts[1]
            ELSE F[i - 1] \o <<"\n">> \o parts[i]
    IN F[Len(parts)]

\* The text generation service's answer to a prompt.
Llm(prompt) == <<"answer(">> \o prompt \o <<")">>

\* ------------------------------------------------------------------- state

VARIABLES
    pc,                 \* position of the handler
    request_body,       \* body of the request received
    embedding_reply,    \* what the embedding service call met
    rows,               \* result set returned by the store
    query,              \* request_json["query"]
    query_embedding,    \* vector returned by get_query_embedding
    all_entities_data,  \* entities read from the store
    valid_entities,     \* entities with a usable embedding
    top_n_entities,     \* the ranked selection
    idx,                \* position of the loop over top_n_entities
    partial_answers,    \* answers collected so far
    response,           \* (status, body) returned to the caller
    calls,              \* collaborator calls made, in order
    failure             \* stage whose exception reached the handler's except

vars == <<pc, request_body, embedding_reply, rows, query, query_embedding, all_entities_data, valid_entities,
          top_n_entities, idx, partial_answers, response, calls, failure>>

Response(status, key, val) == [status |-> status, key |-> key, val |-> val]

NoResponse == Response(0, "", <<>>)

BadRequest == Response(400, "error", <<"Bad Request: Invalid JSON or missing query">>)

EmbeddingFailed == Response(500, "error", <<"Failed to generate query embedding">>)

NoRelevantInformation == Response(200, "message", <<"No relevant information found.">>)

NoPartialAnswers ==
    Response(200, "message", <<"No relevant information found to answer your query.", "\n">>)

InternalServerError == Response(500, "error", <<"Internal Server Error">>)

\* One collaborator call: the service, whether it returned, the prompt sent
\* and the text returned (text generation only).
Call(svc, ok, prompt, out) == [svc |-> svc, ok |-> ok, prompt |-> prompt, out |-> out]

NoBody == Body("none", FALSE, FALSE)

NoReply == EmbedOutcome(FALSE, FALSE, FALSE, -1, None)

Init ==
    /\ pc = "start"
    /\ request_body = NoBody
    /\ embedding_reply = NoReply
    /\ rows = <<>>
    /\ query = <<>>
    /\ query_embedding = <<>>
    /\ all_entities_data = <<>>
    /\ valid_entities = <<>>
    /\ top_n_entities = <<>>
    /\ idx = 0
    /\ partial_answers = <<>>
    /\ response = NoResponse
    /\ calls = <<>>
    /\ failure = "none"

\* return jsonify(...), status
Return(r) ==
    /\ response' = r
    /\ pc' = "done"
    /\ failure' = failure

\* The except handler putting the exception's detail into the body.
Except_LeakDetail(stage) ==
    /\ response' = Response(500, "error", <<"Internal Server Error", stage>>)
    /\ pc' = "done"
    /\ failure' = stage

\* except Exception as e: ... return jsonify({"error": "Internal Server Error"}), 500
Except(stage) ==
    /\ response' = InternalServerError
    /\ pc' = "done"
    /\ failure' = stage

\* request.get_json(silent=True)
GetJson(body) ==
    IF body.kind \in {"missing", "invalid"} THEN NoBody ELSE body

\* Lines 134-140: parse the body and read the query.
ReceiveRequest ==
    /\ pc = "start"
    /\ \E body \in Bodies :
         LET request_json == GetJson(body) IN
         /\ request_body' = body
         /\ IF ~request_json.truthy
            THEN Return(BadRequest) /\ query' = query
            ELSE IF request_json.kind = "number"
            THEN Except("request") /\ query' = query
            ELSE IF ~request_json.hasQuery
            THEN Return(BadRequest) /\ query' = query
            ELSE IF request_json.kind # "object"
            THEN Except("request") /\ query' = query
            ELSE /\ query' = QueryText
                 /\ pc' = "embed"
                 /\ UNCHANGED <<response, failure>>
    /\ UNCHANGED <<embedding_reply, rows, query_embedding, all_entities_data, valid_entities,
                   top_n_entities, idx, partial_answers, calls>>

\* Lines 142-150: the query's embedding.
EmbedQuery ==
    /\ pc = "embed"
    /\ \E o \in EmbedOutcomes :
         LET r == get_query_embedding(o) IN
         /\ embedding_reply' = o
         /\ calls' = IF r.called
                     THEN Append(calls, Call("embedding", ~o.transport, <<>>, <<>>))
                     ELSE calls
         /\ IF r.raised
            THEN Except("embedding") /\ query_embedding' = query_embedding
            ELSE IF ~Truthy(r.value)
            THEN Return(EmbeddingFailed) /\ query_embedding' = query_embedding
            ELSE /\ query_embedding' = r.value.v
                 /\ pc' = "fetch"
                 /\ UNCHANGED <<response, failure>>
    /\ UNCHANGED <<request_body, rows, query, all_entities_data, valid_entities,
                   top_n_entities, idx, partial_answers>>

\* Lines 175-191: read every entity from the store.
FetchCandidates ==
    /\ pc = "fetch"
    /\ \E ok \in BOOLEAN :
         /\ calls' = Append(calls, Call("storage", ok, <<>>, <<>>))
         /\ IF ~ok
            THEN Except("storage") /\ UNCHANGED <<rows, all_entities_data>>
            ELSE \E results \in Pools :
                   /\ rows' = results
                   /\ all_entities_data' =
                        [i \in 1..Len(results) |-> Entity(i, results[i])]
                   /\ pc' = "search"
                   /\ UNCHANGED <<response, failure>>
    /\ UNCHANGED <<request_body, embedding_reply, query, query_embedding, valid_entities, top_n_entities,
                   idx, partial_answers>>

\* Lines 197-219: filter the entities and rank them by similarity.
SimilaritySearch ==
    /\ pc = "search"
    /\ valid_entities' = FilterValid(all_entities_data)
    /\ IF valid_entities' = <<>>
       THEN Return(NoRelevantInformation) /\ UNCHANGED <<top_n_entities, idx>>
       ELSE IF CosineRaises(query_embedding, valid_entities')
       THEN Except("similarity") /\ UNCHANGED <<top_n_entities, idx>>
       ELSE \E order \in Argsort(query_embedding, valid_entities') :
              /\ top_n_entities' = [i \in 1..Len(TopNIndices(order)) |->
                                      valid_entities'[TopNIndices(order)[i]]]
              /\ idx' = 1
              /\ pc' = "partials"
              /\ UNCHANGED <<response, failure>>
    /\ UNCHANGED <<request_body, embedding_reply, rows, query, query_embedding,
                   all_entities_data, partial_answers, calls>>

\* Lines 226-252: one turn of the loop over top_n_entities.
GeneratePartial ==
    /\ pc = "partials"
    /\ idx <= Len(top_n_entities)
    /\ LET summary == ResolveSummary(top_n_entities[idx])
           prompt == PARTIAL_ANSWER_PROMPT(query, summary)
       IN IF summary = <<>>
          THEN /\ idx' = idx + 1
               /\ UNCHANGED <<pc, partial_answers, response, calls, failure>>
          ELSE \E ok \in BOOLEAN :
                 /\ calls' = Append(calls, Call("partial", ok, prompt,
                                                IF ok THEN Llm(prompt) ELSE <<>>))
                 /\ IF ok
                    THEN /\ partial_answers' = Append(partial_answers, Llm(prompt))
                         /\ idx' = idx + 1
                         /\ UNCHANGED <<pc, response, failure>>
                    ELSE Except("partial") /\ UNCHANGED <<partial_answers, idx>>
    /\ UNCHANGED <<request_body, embedding_reply, rows, query, query_embedding,
                   all_entities_data, valid_entities, top_n_entities>>

\* Lines 255-263: the final answer.
Synthesize ==
    /\ pc = "partials"
    /\ idx > Len(top_n_entities)
    /\ IF partial_answers = <<>>
       THEN Return(NoPartialAnswers) /\ calls' = calls
       ELSE LET prompt == FINAL_ANSWER_PROMPT(query, Join(partial_answers)) IN
            \E ok \in BOOLEAN :
              /\ calls' = Append(calls, Call("synthesis", ok, prompt,
                                             IF ok THEN Llm(prompt) ELSE <<>>))
              /\ IF ok
                 THEN Return(Response(200, "answer", Llm(prompt)))
                 ELSE Except("synthesis")
    /\ UNCHANGED <<request_body, embedding_reply, rows, query, query_embedding,
                   all_entities_data, valid_entities, top_n_entities, idx,
                   partial_answers>>

Next ==
    \/ ReceiveRequest
    \/ EmbedQuery
    \/ FetchCandidates
    \/ SimilaritySearch
    \/ GeneratePartial
    \/ Synthesize

Spec == Init /\ [][Next]_vars

\* -------------------------------------------------------------- properties

Min(a, b) == IF a < b THEN a ELSE b

CallsTo(svcs) == SelectSeq(calls, LAMBDA c : c.svc \in svcs)

PartialCalls == CallsTo({"partial"})

SynthesisCalls == CallsTo({"synthesis"})

GenerationCalls == CallsTo({"partial", "synthesis"})

\* The store answered the query (with any number of rows).
StoreReturned == \E i \in 1..Len(calls) : calls[i].svc = "storage" /\ calls[i].ok

\* The ranking step has just produced its selection (top_n_entities and
\* valid_entities do not change afterwards).
Ranked == pc = "partials" /\ idx = 1

Score(e) == e.embedding.v

TieScore(a, b) ==
    /\ SimLE(query_embedding, Score(a), Score(b))
    /\ SimLE(query_embedding, Score(b), Score(a))

Selected(e) == \E i \in 1..Len(top_n_entities) : top_n_entities[i].id = e.id

\* The embedding service was reached and gave no usable vector: a transport
\* error, a status other than 200, or a 200 response whose embedding is
\* missing, empty or not a list.
NoUsableVector(o) ==
    /\ o.url /\ o.token
    /\ \/ o.transport
       \/ o.status # 200
       \/ ~(o.embedding.t = "list" /\ o.embedding.v # <<>>)

RowHasNoEmbedding(row) == row.emb.t = "null" \/ row.emb.v = <<>>

\* C2: when the query embedding succeeds and the store returns no row, or
\* only rows without an embedding, the request ends with 200 "No relevant
\* information found." and no text generation call is made.
C2_NoCandidates ==
    (/\ pc = "done"
     /\ StoreReturned
     /\ \A i \in 1..Len(rows) : RowHasNoEmbedding(rows[i])) =>
        /\ response = NoRelevantInformation
        /\ GenerationCalls = <<>>

C2_Witness ==
    /\ pc = "done"
    /\ StoreReturned
    /\ Len(rows) = 2
    /\ \A i \in 1..Len(rows) : rows[i].emb = SQLNull
    /\ response = NoRelevantInformation

\* The resolved summary of a ranked entity is never the empty string, so the
\* loop never skips an entity and the "no partial answers" response (the case
\* of C3) is never returned.
SummaryNeverEmpty ==
    /\ \A i \in 1..Len(top_n_entities) : ResolveSummary(top_n_entities[i]) # <<>>
    /\ response # NoPartialAnswers
    /\ (pc = "partials" /\ idx > Len(top_n_entities)) => partial_answers # <<>>

RowHasEmbedding(row) == row.emb.t = "list" /\ row.emb.v # <<>>

NonEmpty(text) == text # Absent /\ text # <<>>

RowHasSummary(row) ==
    /\ ~row.props.null
    /\ IF row.type \in {"Community", "Class"}
       THEN NonEmpty(row.props.json.summary)
       ELSE IF row.type = "Instance"
       THEN NonEmpty(row.props.json.name) \/ NonEmpty(row.props.json.description)
       ELSE TRUE

\* The premise of C4: the embedding call succeeded, the store returned
\* N >= 1 rows that all have an embedding (of one common length) and a
\* non-empty summary, and no text generation call failed.
C4_Premise ==
    /\ pc = "done"
    /\ query_embedding # <<>>
    /\ StoreReturned
    /\ Len(rows) >= 1
    /\ \A i \in 1..Len(rows) :
         /\ RowHasEmbedding(rows[i])
         /\ RowHasSummary(rows[i])
         /\ Len(rows[i].emb.v) = Len(rows[1].emb.v)
    /\ \A i \in 1..Len(calls) : calls[i].ok

C4_Conclusion ==
    /\ Len(PartialCalls) = Min(top_n, Len(rows))
    /\ Len(SynthesisCalls) = 1
    /\ calls[Len(calls)].svc = "synthesis"
    /\ response.status = 200
    /\ response.key = "answer"
    /\ response.val = calls[Len(calls)].out

\* C4 as stated: under the premise the request makes min(K, N) per-entity
\* generation calls, then one synthesis call, and answers 200 with the
\* synthesis call's output.
C4_AsStated == C4_Premise => C4_Conclusion

\* C4, amended: the same, provided the query embedding has the length of the
\* entities' embeddings.
C4_SameDimension ==
    (C4_Premise /\ Len(query_embedding) = Len(rows[1].emb.v)) => C4_Conclusion

C4_Witness ==
    /\ C4_Premise
    /\ Len(rows) = top_n + 1
    /\ Len(query_embedding) = Len(rows[1].emb.v)
    /\ Len(PartialCalls) = top_n
    /\ response.key = "answer"

\* A request body that carries a `query` field: a JSON object with that key.
CarriesQuery(body) == body.kind = "object" /\ body.hasQuery

\* C5: a request whose body is missing, is not JSON, or is JSON without a
\* `query` field is answered 400 Bad Request and makes no collaborator call.
C5_BadRequest ==
    (pc = "done" /\ ~CarriesQuery(request_body)) =>
        /\ response = BadRequest
        /\ calls = <<>>

\* C6: the ranking step selects min(K, |valid|) of the valid entities, no
\* selected entity scores below a non-selected one, and the selection is in
\* descending order of score.
C6_TopK ==
    Ranked =>
        LET n == Len(valid_entities)
            m == Len(top_n_entities)
        IN /\ m = Min(top_n, n)
           /\ \A i \in 1..m : \E j \in 1..n : top_n_entities[i] = valid_entities[j]
           /\ \A i, j \in 1..m : i # j => top_n_entities[i].id # top_n_entities[j].id
           /\ \A i \in 1..(m - 1) :
                SimLE(query_embedding, Score(top_n_entities[i + 1]),
                      Score(top_n_entities[i]))
           /\ \A i \in 1..m : \A j \in 1..n :
                ~Selected(valid_entities[j]) =>
                    SimLE(query_embedding, Score(valid_entities[j]),
                          Score(top_n_entities[i]))

C6_Witness ==
    /\ Ranked
    /\ Len(valid_entities) = top_n + 1
    /\ Len(top_n_entities) = top_n
    /\ ~TieScore(top_n_entities[1], top_n_entities[top_n])
    /\ \E j \in 1..Len(valid_entities) :
         /\ ~Selected(valid_entities[j])
         /\ ~TieScore(valid_entities[j], top_n_entities[1])

\* C7: of two valid entities with equal scores the one retrieved first is
\* ranked first, and it is the one selected when the tie is at the top-K cut.
C7_StableTies ==
    Ranked =>
        /\ \A i, j \in 1..Len(top_n_entities) :
             (i < j /\ TieScore(top_n_entities[i], top_n_entities[j])) =>
                 top_n_entities[i].id < top_n_entities[j].id
        /\ \A i \in 1..Len(top_n_entities) : \A j \in 1..Len(valid_entities) :
             (~Selected(valid_entities[j])
              /\ TieScore(top_n_entities[i], valid_entities[j])) =>
                 top_n_entities[i].id < valid_entities[j].id

\* An embedding that is missing, not list-shaped, or not of the dimensionality
\* of the run (the query embedding's length).
RowEmbeddingInvalid(row) ==
    row.emb.t # "list" \/ Len(row.emb.v) # Len(query_embedding)

\* C8: entities with an invalid embedding are left out of the ranking, are
\* never selected, and do not make the request fail: the valid ones are
\* still ranked.
C8_InvalidExcluded ==
    (pc \in {"partials", "done"} /\ StoreReturned) =>
        /\ failure # "similarity"
        /\ \A i \in 1..Len(top_n_entities) :
             Len(Score(top_n_entities[i])) = Len(query_embedding)
        /\ (\E i \in 1..Len(rows) : ~RowEmbeddingInvalid(rows[i])) =>
               top_n_entities # <<>>

\* C9: a failed text generation call is the last collaborator call of the
\* request, and the request ends with the generic 500 "Internal Server Error",
\* not with an answer.
C9_GenerationFailureAborts ==
    \A i \in 1..Len(calls) :
        (calls[i].svc \in {"partial", "synthesis"} /\ ~calls[i].ok) =>
            /\ i = Len(calls)
            /\ pc = "done"
            /\ response = InternalServerError

C9_Witness ==
    /\ pc = "done"
    /\ Len(partial_answers) >= 1
    /\ Len(PartialCalls) = Len(partial_answers) + 1
    /\ Len(PartialCalls) < Len(top_n_entities)
    /\ ~calls[Len(calls)].ok
    /\ response = InternalServerError

\* The summary C10 states for an Instance: name, else description, else the
\* serialized properties.
InstanceSummary(props) ==
    IF NonEmpty(props.name) THEN props.name
    ELSE IF NonEmpty(props.description) THEN props.description
    ELSE Dumps(props)

\* C10: the prompt of every generation call made for an Instance holds its
\* name when non-empty, else its description when non-empty, else its
\* serialized properties, and never the empty string.
C10_InstanceSummary ==
    \A i \in 1..Len(PartialCalls) :
        top_n_entities[i].type = "Instance" =>
            /\ InstanceSummary(top_n_entities[i].properties) # <<>>
            /\ PartialCalls[i].prompt =
                   PARTIAL_ANSWER_PROMPT(query,
                       InstanceSummary(top_n_entities[i].properties))

====
